---- MODULE Spec2Model ----
(***************************************************************************)
(* Model of lib/rbcodec/dsp/crossfeed.c: the crossfeed DSP stage           *)
(* (struct crossfeed_state, its flush/configure/enable/setter entry        *)
(* points, the format-change handler and the generic C sample loop).       *)
(*                                                                         *)
(* Machine words are kept at their C width.  TLC integers are 32-bit, so   *)
(* 64-bit products are computed limb by limb and unsigned 32-bit values    *)
(* are pairs <<hi, lo>> of 16-bit halves.                                  *)
(***************************************************************************)
EXTENDS Integers, Sequences, FiniteSets, TLC

VARIABLES
    crossfeed_state,  \* the static struct crossfeed_state
    this,             \* the stage's struct dsp_proc_entry (data, process[2])
    active,           \* the pipeline's record: is the stage marked active
    channels,         \* channel count of the pipeline's current format
    buf,              \* the buffer the pipeline handed down, as the stage left it
    seed,             \* which input stream the codec delivers
    inlog,            \* frames processed since the last flush (history)
    fresh,            \* no buffer reached a handler since the attach (history)
    last              \* what the last operation was and what it did (history)

vars == <<crossfeed_state, this, active, channels, buf, seed, inlog, fresh, last>>

----------------------------------------------------------------------------
(* Bounds of the model *)

\* frames processed between two flushes
MaxFrames == 15

\* largest ordinary buffer, in frames (a long one of DELAY_FRAMES + 1 is
\* delivered as well)
MaxCount == 2

\* nesting of handler calls followed before the model gives up
MaxDepth == 2

\* frames the sample loop is followed for from a chosen filter state
MaxFilterFrames == 2

----------------------------------------------------------------------------
(* Machine words *)

NULL == "NULL"

INT32_MAX == 2147483647

INT32_MIN == -INT32_MAX - 1

\* int32_t addition, wrapping modulo 2^32
Add32(a, b) ==
    IF a >= 0 /\ b >= 0
    THEN IF a > INT32_MAX - b
         THEN ((a - INT32_MAX) + (b - INT32_MAX)) - 2
         ELSE a + b
    ELSE IF a < 0 /\ b < 0
         THEN IF a < INT32_MIN - b
              THEN ((a - INT32_MIN) + (b - INT32_MIN))
              ELSE a + b
         ELSE a + b

Abs(x) == IF x < 0 THEN -x ELSE x

Pow2(k) == 2 ^ k

\* floor(a * b / 2^k) and whether the division was exact, for
\* 0 <= a, b < 2^31 and 22 <= k <= 31, from 11-bit limbs
MulShrNat(a, b, k) ==
    LET a0 == a % 2048
        a1 == (a \div 2048) % 2048
        a2 == a \div 4194304
        b0 == b % 2048
        b1 == (b \div 2048) % 2048
        b2 == b \div 4194304
        p0 == a0 * b0
        p1 == a1 * b0 + a0 * b1
        p2 == a2 * b0 + a1 * b1 + a0 * b2
        p3 == a2 * b1 + a1 * b2
        p4 == a2 * b2
        c1 == p1 + (p0 \div 2048)
        c2 == p2 + (c1 \div 2048)
        lo == Pow2(k - 22)
    IN  [q |-> p4 * Pow2(44 - k) + p3 * Pow2(33 - k) + (c2 \div lo),
         exact |-> (c2 % lo = 0) /\ (c1 % 2048 = 0) /\ (p0 % 2048 = 0)]

\* (int64_t)x * y >> k (arithmetic shift: floor), for x, y > INT32_MIN
MulShr(x, y, k) ==
    LET m == MulShrNat(Abs(x), Abs(y), k)
    IN  IF (x < 0) = (y < 0) \/ x = 0 \/ y = 0
        THEN m.q
        ELSE IF m.exact THEN -m.q ELSE -m.q - 1

\* FRACMUL(x, y): (int32_t)(((int64_t)x * y) >> 31)
FRACMUL(x, y) ==
    IF x = INT32_MIN
    THEN IF y = INT32_MIN THEN INT32_MIN ELSE -y
    ELSE IF y = INT32_MIN
         THEN -x
         ELSE MulShr(x, y, 31)

\* FRACMUL_SHL(x, y, z): (int32_t)(((int64_t)x * y) >> (31 - z))
FRACMUL_SHL(x, y, z) == MulShr(x, y, 31 - z)

\* x << 4 on an int32_t, keeping the low 32 bits
Shl4(x) ==
    LET m == x % 268435456
    IN  IF m >= 134217728 THEN (m - 268435456) * 16 ELSE m * 16

\* an unsigned 32-bit value hi * 2^16 + lo as the pair <<hi, lo>>
U32(hi, lo) == <<hi, lo>>

UINT32_MAX == U32(65535, 65535)

\* (unsigned)x - 1 for a small non-negative int x
U32Dec(x) == IF x = 0 THEN UINT32_MAX ELSE U32(0, x - 1)

\* u <= v on unsigned 32-bit values
U32Leq(u, v) == u[1] < v[1] \/ (u[1] = v[1] /\ u[2] <= v[2])

----------------------------------------------------------------------------
(* struct crossfeed_state and the stage's dsp_proc_entry *)

\* int32_t delay[13*2]: 13 frames, left and right interleaved
DELAY_FRAMES == 13

DELAY_SLOTS == 2 * DELAY_FRAMES

Zeros(n) == [i \in 0..(n - 1) |-> 0]

\* index is kept as the offset of the pointer into delay[]; a pointer that
\* points nowhere in delay[] (the null pointer) is written -1
NullIndex == 0 - 1

\* the IBSS instance before anything ran: all bits zero, so index is a
\* null pointer and no pipeline is bound
InitState ==
    [gain |-> 0, coefs |-> Zeros(3), history |-> Zeros(4),
     delay |-> Zeros(DELAY_SLOTS), index |-> NullIndex, dsp |-> NULL]

ProcessNewFormat == "crossfeed_process_new_format"

Process == "crossfeed_process"

\* the only pipeline the stage is enabled on
CODEC_IDX_AUDIO == "CODEC_IDX_AUDIO"

NoBuffer ==
    [format |-> [num_channels |-> 0, changed |-> 0], remcount |-> 0, p32 |-> <<>>]

\* what an operation works on: the state, the proc entry, the pipeline's
\* activity record, the buffer in flight (none outside dsp_process), and the
\* history it leaves behind
Ctx ==
    [st |-> crossfeed_state, this |-> this, active |-> active, buf |-> NoBuffer,
     inlog |-> inlog, calls |-> <<>>, frames |-> <<>>, requests |-> <<>>,
     depth |-> 0]

\* a flush that forgets the delay line
crossfeed_flush_keep_delay(c) ==
    [c EXCEPT !.st.history = Zeros(4), !.st.index = 0, !.inlog = <<>>]

\* a flush that clears the whole struct but the binding
crossfeed_flush_all(c) ==
    [c EXCEPT !.st = [InitState EXCEPT !.index = 0, !.dsp = c.st.dsp],
              !.inlog = <<>>]

\* a flush that clears the delay line and the cursor but not the filter
\* histories
crossfeed_flush_keep_history(c) ==
    [c EXCEPT !.st.delay = Zeros(DELAY_SLOTS), !.st.index = 0, !.inlog = <<>>]

\* crossfeed_flush: discard the sample histories
crossfeed_flush(c) ==
    [c EXCEPT !.st.history = Zeros(4),
              !.st.delay = Zeros(DELAY_SLOTS),
              !.st.index = 0,
              !.inlog = <<>>]

\* dsp_proc_activate(dsp, DSP_PROC_CROSSFEED, flag): the pipeline records
\* whether the stage takes part
dsp_proc_activate(c, dsp, flag) == [c EXCEPT !.active = flag]

----------------------------------------------------------------------------
(* The sample loop *)

\* sample i of channel ch of a buffer; a channel the buffer does not have
\* is memory the stage must not touch, read here as 0 (no run of the
\* program gets there)
Sample32(b, ch, i) == IF ch \in DOMAIN b.p32 THEN b.p32[ch][i] ELSE 0

\* buf->p32[ch][i] = v, for the channels the buffer has
Store32(p32, ch, i, v) ==
    IF ch \in DOMAIN p32 THEN [p32 EXCEPT ![ch] = [@ EXCEPT ![i] = v]] ELSE p32

\* a wrap one frame early
WrapIndexEarly(di) == IF di >= DELAY_SLOTS - 2 THEN 0 ELSE di

\* the wrap at the end of one frame: di >= delay + 13*2
WrapIndex(di) == IF di >= DELAY_SLOTS THEN 0 ELSE di

\* the loop body mixing each channel's own filter output into it, not
\* the opposite channel's
ProcessFrameStraight(c, i) ==
    LET st == c.st
        left == Sample32(c.buf, 0, i)
        right == Sample32(c.buf, 1, i)
        di == st.index
        dl == st.delay[di]
        accl == Add32(Add32(FRACMUL(dl, st.coefs[0]),
                            FRACMUL(st.history[0], st.coefs[1])),
                      FRACMUL(st.history[1], st.coefs[2]))
        dr == st.delay[di + 1]
        accr == Add32(Add32(FRACMUL(dr, st.coefs[0]),
                            FRACMUL(st.history[2], st.coefs[1])),
                      FRACMUL(st.history[3], st.coefs[2]))
        outl == Add32(FRACMUL(left, st.gain), accl)
        outr == Add32(FRACMUL(right, st.gain), accr)
        next == WrapIndex(di + 2)
    IN  [c EXCEPT
            !.st.history = [k \in 0..3 |->
                CASE k = 0 -> dl [] k = 1 -> accl [] k = 2 -> dr [] OTHER -> accr],
            !.st.delay = [st.delay EXCEPT ![di] = left, ![di + 1] = right],
            !.st.index = next,
            !.buf.p32 = Store32(Store32(@, 0, i, outl), 1, i, outr),
            !.inlog = Append(@, <<left, right>>),
            !.frames = Append(@, [at |-> di, dl |-> dl, dr |-> dr,
                                  hist |-> st.history,
                                  left |-> left, right |-> right,
                                  outl |-> outl, outr |-> outr,
                                  next |-> next])]

\* the loop body mixing in the filter outputs of the frame before, read
\* from the histories before they are updated
ProcessFrameStale(c, i) ==
    LET st == c.st
        left == Sample32(c.buf, 0, i)
        right == Sample32(c.buf, 1, i)
        di == st.index
        dl == st.delay[di]
        accl == Add32(Add32(FRACMUL(dl, st.coefs[0]),
                            FRACMUL(st.history[0], st.coefs[1])),
                      FRACMUL(st.history[1], st.coefs[2]))
        dr == st.delay[di + 1]
        accr == Add32(Add32(FRACMUL(dr, st.coefs[0]),
                            FRACMUL(st.history[2], st.coefs[1])),
                      FRACMUL(st.history[3], st.coefs[2]))
        outl == Add32(FRACMUL(left, st.gain), st.history[3])
        outr == Add32(FRACMUL(right, st.gain), st.history[1])
        next == WrapIndex(di + 2)
    IN  [c EXCEPT
            !.st.history = [k \in 0..3 |->
                CASE k = 0 -> dl [] k = 1 -> accl [] k = 2 -> dr [] OTHER -> accr],
            !.st.delay = [st.delay EXCEPT ![di] = left, ![di + 1] = right],
            !.st.index = next,
            !.buf.p32 = Store32(Store32(@, 0, i, outl), 1, i, outr),
            !.inlog = Append(@, <<left, right>>),
            !.frames = Append(@, [at |-> di, dl |-> dl, dr |-> dr,
                                  hist |-> st.history,
                                  left |-> left, right |-> right,
                                  outl |-> outl, outr |-> outr,
                                  next |-> next])]

\* one iteration of the loop in crossfeed_process, on frame i of the buffer
ProcessFrame(c, i) ==
    LET st == c.st
        left == Sample32(c.buf, 0, i)
        right == Sample32(c.buf, 1, i)
        di == st.index
        dl == st.delay[di]
        accl == Add32(Add32(FRACMUL(dl, st.coefs[0]),
                            FRACMUL(st.history[0], st.coefs[1])),
                      FRACMUL(st.history[1], st.coefs[2]))
        dr == st.delay[di + 1]
        accr == Add32(Add32(FRACMUL(dr, st.coefs[0]),
                            FRACMUL(st.history[2], st.coefs[1])),
                      FRACMUL(st.history[3], st.coefs[2]))
        outl == Add32(FRACMUL(left, st.gain), accr)
        outr == Add32(FRACMUL(right, st.gain), accl)
        next == WrapIndex(di + 2)
    IN  [c EXCEPT
            !.st.history = [k \in 0..3 |->
                CASE k = 0 -> dl [] k = 1 -> accl [] k = 2 -> dr [] OTHER -> accr],
            !.st.delay = [st.delay EXCEPT ![di] = left, ![di + 1] = right],
            !.st.index = next,
            !.buf.p32 = Store32(Store32(@, 0, i, outl), 1, i, outr),
            !.inlog = Append(@, <<left, right>>),
            !.frames = Append(@, [at |-> di, dl |-> dl, dr |-> dr,
                                  hist |-> st.history,
                                  left |-> left, right |-> right,
                                  outl |-> outl, outr |-> outr,
                                  next |-> next])]

RECURSIVE ProcessLoop(_, _)
\* for (int i = 0; i < count; i++) ...
ProcessLoop(c, i) ==
    IF i >= c.buf.remcount THEN c ELSE ProcessLoop(ProcessFrame(c, i), i + 1)

\* the sample loop without the final state->index = di
crossfeed_process_no_writeback(c) ==
    [ProcessLoop(c, 0) EXCEPT !.st.index = c.st.index]

\* the sample loop marking the buffer's frames as consumed
crossfeed_process_consume(c) ==
    [ProcessLoop(c, 0) EXCEPT !.buf.remcount = 0]

\* crossfeed_process: apply the crossfeed to the buffer in place
crossfeed_process(c) == ProcessLoop(c, 0)

----------------------------------------------------------------------------
(* The format-change handler and the pipeline's calls *)

RECURSIVE Invoke(_, _)
RECURSIVE dsp_proc_call(_, _)
RECURSIVE crossfeed_process_new_format(_)

\* the pipeline calls the handler fn of the proc entry on the buffer; a
\* nesting deeper than MaxDepth is cut and recorded
Invoke(c, fn) ==
    IF c.depth >= MaxDepth
    THEN [c EXCEPT !.calls = Append(@, "...")]
    ELSE LET d == [c EXCEPT !.calls = Append(@, fn), !.depth = @ + 1]
             r == CASE fn = ProcessNewFormat -> crossfeed_process_new_format(d)
                    [] fn = Process -> crossfeed_process(d)
                    [] OTHER -> d
         IN  [r EXCEPT !.depth = c.depth]

\* dsp_proc_call(this, buf_p, fmt): the pipeline's re-entry call; fmt 1
\* selects the format-change handler, anything else the normal one
dsp_proc_call(c, fmt) ==
    Invoke(c, c.this.process[IF fmt = U32(0, 1) THEN 1 ELSE 0])

\* the handler without the flush on deactivation
crossfeed_process_new_format_no_flush(c) ==
    LET act == c.buf.format.num_channels >= 2
        c1 == dsp_proc_activate(c, c.st.dsp, act)
    IN  IF ~act
        THEN c1
        ELSE dsp_proc_call([c1 EXCEPT !.this.process[0] = Process],
                           U32Dec(c.buf.format.changed))

\* the handler flushing on every format change
crossfeed_process_new_format_flush_always(c) ==
    LET act == c.buf.format.num_channels >= 2
        c1 == crossfeed_flush(dsp_proc_activate(c, c.st.dsp, act))
    IN  IF ~act
        THEN c1
        ELSE dsp_proc_call([c1 EXCEPT !.this.process[0] = Process],
                           U32Dec(c.buf.format.changed))

\* the handler telling the pipeline the stage is active whatever the format
crossfeed_process_new_format_always_active(c) ==
    LET act == c.buf.format.num_channels >= 2
        c1 == dsp_proc_activate(c, c.st.dsp, TRUE)
    IN  IF ~act
        THEN crossfeed_flush(c1)
        ELSE dsp_proc_call([c1 EXCEPT !.this.process[0] = Process],
                           U32Dec(c.buf.format.changed))

\* the handler passing format.changed itself to dsp_proc_call
crossfeed_process_new_format_changed_fmt(c) ==
    LET act == c.buf.format.num_channels >= 2
        c1 == dsp_proc_activate(c, c.st.dsp, act)
    IN  IF ~act
        THEN crossfeed_flush(c1)
        ELSE dsp_proc_call([c1 EXCEPT !.this.process[0] = Process],
                           U32(0, c.buf.format.changed))

\* the handler never switching to the real function
crossfeed_process_new_format_no_install(c) ==
    LET act == c.buf.format.num_channels >= 2
        c1 == dsp_proc_activate(c, c.st.dsp, act)
    IN  IF ~act
        THEN crossfeed_flush(c1)
        ELSE dsp_proc_call(c1, U32Dec(c.buf.format.changed))

\* the handler putting itself back as the normal handler when it
\* deactivates the stage
crossfeed_process_new_format_reprobe(c) ==
    LET act == c.buf.format.num_channels >= 2
        c1 == dsp_proc_activate(c, c.st.dsp, act)
    IN  IF ~act
        THEN crossfeed_flush([c1 EXCEPT !.this.process[0] = ProcessNewFormat])
        ELSE dsp_proc_call([c1 EXCEPT !.this.process[0] = Process],
                           U32Dec(c.buf.format.changed))

\* the handler accepting a single channel
crossfeed_process_new_format_mono_ok(c) ==
    LET act == c.buf.format.num_channels >= 1
        c1 == dsp_proc_activate(c, c.st.dsp, act)
    IN  IF ~act
        THEN crossfeed_flush(c1)
        ELSE dsp_proc_call([c1 EXCEPT !.this.process[0] = Process],
                           U32Dec(c.buf.format.changed))

\* crossfeed_process_new_format: crossfeed boot/format change function
crossfeed_process_new_format(c) ==
    LET act == c.buf.format.num_channels >= 2
        c1 == dsp_proc_activate(c, c.st.dsp, act)
    IN  IF ~act
        THEN crossfeed_flush(c1)
        ELSE dsp_proc_call([c1 EXCEPT !.this.process[0] = Process],
                           U32Dec(c.buf.format.changed))

DSP_PROC_INIT == "DSP_PROC_INIT"

DSP_FLUSH == "DSP_FLUSH"

DSP_PROC_CLOSE == "DSP_PROC_CLOSE"

\* the hook with a break after DSP_PROC_INIT
crossfeed_configure_no_fallthrough(c, dsp, setting) ==
    CASE setting = DSP_PROC_INIT ->
            dsp_proc_activate(
                [c EXCEPT !.this.data = "crossfeed_state",
                          !.this.process = [k \in 0..1 |-> ProcessNewFormat],
                          !.st.dsp = dsp],
                dsp, TRUE)
      [] setting = DSP_FLUSH -> crossfeed_flush(c)
      [] setting = DSP_PROC_CLOSE -> [c EXCEPT !.st.dsp = NULL]
      [] OTHER -> c

\* the hook flushing on DSP_PROC_CLOSE as well
crossfeed_configure_close_flush(c, dsp, setting) ==
    CASE setting = DSP_PROC_INIT ->
            crossfeed_flush(
                dsp_proc_activate(
                    [c EXCEPT !.this.data = "crossfeed_state",
                              !.this.process = [k \in 0..1 |-> ProcessNewFormat],
                              !.st.dsp = dsp],
                    dsp, TRUE))
      [] setting = DSP_FLUSH -> crossfeed_flush(c)
      [] setting = DSP_PROC_CLOSE -> crossfeed_flush([c EXCEPT !.st.dsp = NULL])
      [] OTHER -> c

\* crossfeed_configure: DSP message hook; DSP_PROC_INIT falls through into
\* DSP_FLUSH
crossfeed_configure(c, dsp, setting) ==
    CASE setting = DSP_PROC_INIT ->
            crossfeed_flush(
                dsp_proc_activate(
                    [c EXCEPT !.this.data = "crossfeed_state",
                              !.this.process = [k \in 0..1 |-> ProcessNewFormat],
                              !.st.dsp = dsp],
                    dsp, TRUE))
      [] setting = DSP_FLUSH -> crossfeed_flush(c)
      [] setting = DSP_PROC_CLOSE -> [c EXCEPT !.st.dsp = NULL]
      [] OTHER -> c

\* dsp_proc_enable(dsp, DSP_PROC_CROSSFEED, enable): the pipeline adds the
\* stage and sends it DSP_PROC_INIT, or sends it DSP_PROC_CLOSE and drops it
dsp_proc_enable(c, dsp, enable) ==
    LET d == [c EXCEPT !.requests = Append(@, IF enable THEN "attach" ELSE "detach")]
    IN  IF enable
        THEN crossfeed_configure(d, dsp, DSP_PROC_INIT)
        ELSE [crossfeed_configure(d, dsp, DSP_PROC_CLOSE) EXCEPT !.active = FALSE]

\* an enable that asks the pipeline every time
dsp_crossfeed_enable_unchecked(c, enable) ==
    dsp_proc_enable(c, CODEC_IDX_AUDIO, enable)

\* dsp_crossfeed_enable: enable or disable the crossfeed
dsp_crossfeed_enable(c, enable) ==
    IF enable # (c.st.dsp = NULL)
    THEN c
    ELSE dsp_proc_enable(c, CODEC_IDX_AUDIO, enable)

\* gain32 << 7 without the clamp: the low 32 bits, read as an int32_t
DirectGainWrap(gain32) ==
    LET m == (gain32[1] % 512) * 65536 + gain32[2]
    IN  IF m >= 16777216 THEN (m - 33554432) * 128 ELSE m * 128

\* the value dsp_set_crossfeed_direct_gain stores for gain32, the result
\* of get_replaygain_int: saturated at 0x7fffffff, else gain32 << 7
DirectGain(gain32) ==
    IF gain32[1] >= 256
    THEN INT32_MAX
    ELSE (gain32[1] * 65536 + gain32[2]) * 128

\* a gain setter that also discards the sample histories
dsp_set_crossfeed_direct_gain_flush(c, gain32) ==
    crossfeed_flush([c EXCEPT !.st.gain = DirectGain(gain32)])

\* dsp_set_crossfeed_direct_gain: set the gain of the dry mix
dsp_set_crossfeed_direct_gain(c, gain32) ==
    [c EXCEPT !.st.gain = DirectGain(gain32)]

\* dsp_set_crossfeed_cross_params: raw are the coefficients that
\* filter_shelf_coefs designed, scaler the LF gain << 7
dsp_set_crossfeed_cross_params(c, raw, scaler) ==
    [c EXCEPT !.st.coefs = [k \in 0..2 |->
        CASE k = 0 -> FRACMUL_SHL(raw[0], scaler, 4)
          [] k = 1 -> FRACMUL_SHL(raw[1], scaler, 4)
          [] OTHER -> Shl4(raw[2])]]

\* the pipeline hands a buffer to the stage: the format-change handler when
\* the buffer carries a format change, the normal handler while the stage is
\* marked active, and nothing when the stage is not enabled
dsp_process(c) ==
    IF c.st.dsp = NULL
    THEN c
    ELSE IF c.buf.format.changed = 1
         THEN Invoke(c, c.this.process[1])
         ELSE IF c.active
              THEN Invoke(c, c.this.process[0])
              ELSE c

----------------------------------------------------------------------------
(* The environment: input stream and parameter values *)

Seeds == {1, 2, 3}

\* sample of channel ch at frame t (counted from the last flush) of input
\* stream s; every frame of streams 1 and 2 differs from every other, in
\* both channels; stream 3 starts with two frames of silence
StreamSample(s, t, ch) ==
    CASE s = 1 -> (IF ch = 0 THEN t + 1 ELSE -(t + 101))
      [] s = 2 -> (IF ch = 0 THEN 200000000 - 1000003 * t ELSE 7000001 * t - 150000000)
      [] OTHER -> (IF t < 2 THEN 0 ELSE IF ch = 0 THEN 50000000 * t ELSE -30000001 * t)

\* frame counts of the buffers the pipeline hands over
Counts == (0..MaxCount) \cup {DELAY_FRAMES + 1}

\* results of get_replaygain_int for the direct gain: -6 dB and 0 dB
GainWords == {U32(128, 0), U32(256, 0)}

\* results of get_replaygain_int around every boundary of the 32-bit range
\* and of the clamp at 2^24
GainWordsWide ==
    {U32(hi, lo) : hi \in {0, 1, 127, 128, 255, 256, 257, 32767, 32768, 65535},
                   lo \in {0, 1, 32768, 65535}}

\* coefficient triples filter_shelf_coefs can return
ShelfCoefs ==
    {[k \in 0..2 |-> 0],
     [k \in 0..2 |-> CASE k = 0 -> 90000000 [] k = 1 -> -60000000 [] OTHER -> 100000000]}

\* values of get_replaygain_int(lf_gain * 10) << 7
Scalers == {1073741824}

\* a buffer of count frames of nch channels cut from the stream
InputBuffer(nch, changed, count) ==
    [format |-> [num_channels |-> nch, changed |-> changed],
     remcount |-> count,
     p32 |-> [ch \in 0..(nch - 1) |->
                 [i \in 0..(count - 1) |-> StreamSample(seed, Len(inlog) + i, ch)]]]

----------------------------------------------------------------------------
(* The state machine *)

\* history and delay line all zero, cursor at slot 0
Clean(st) ==
    /\ st.history = Zeros(4)
    /\ st.delay = Zeros(DELAY_SLOTS)
    /\ st.index = 0

Init ==
    /\ crossfeed_state = InitState
    /\ this = [data |-> NULL, process |-> [k \in 0..1 |-> NULL]]
    /\ active = FALSE
    /\ channels \in {1, 2}
    /\ buf = NoBuffer
    /\ seed \in Seeds
    /\ inlog = <<>>
    /\ fresh = FALSE
    /\ last = [op |-> "boot", enable |-> FALSE, gain32 |-> U32(0, 0),
               in |-> NoBuffer, calls |-> <<>>, frames |-> <<>>,
               requests |-> <<>>,
               was |-> [clean |-> FALSE, active |-> FALSE, bound |-> FALSE,
                        fresh |-> FALSE]]

\* the operation op took the program from the current state to c
Commit(c, op, enable, gain32, in) ==
    /\ Len(c.inlog) <= MaxFrames
    /\ crossfeed_state' = c.st
    /\ this' = c.this
    /\ active' = c.active
    /\ buf' = c.buf
    /\ inlog' = c.inlog
    /\ fresh' = IF "attach" \in {c.requests[k] : k \in 1..Len(c.requests)}
                THEN TRUE
                ELSE fresh /\ c.calls = <<>>
    /\ last' = [op |-> op, enable |-> enable, gain32 |-> gain32, in |-> in,
                calls |-> c.calls, frames |-> c.frames,
                requests |-> c.requests,
                was |-> [clean |-> Clean(crossfeed_state), active |-> active,
                         bound |-> crossfeed_state.dsp # NULL, fresh |-> fresh]]

\* the pipeline is told to enable the stage and sends DSP_PROC_INIT (attach)
Attach ==
    /\ Commit(dsp_proc_enable(Ctx, CODEC_IDX_AUDIO, TRUE),
              "attach", FALSE, U32(0, 0), NoBuffer)
    /\ UNCHANGED <<channels, seed>>

\* the pipeline sends DSP_FLUSH to the initialised stage
Flush ==
    /\ this.data # NULL
    /\ Commit(crossfeed_configure(Ctx, CODEC_IDX_AUDIO, DSP_FLUSH),
              "flush", FALSE, U32(0, 0), NoBuffer)
    /\ UNCHANGED <<channels, seed>>

\* the pipeline is told to disable the initialised stage and sends
\* DSP_PROC_CLOSE (detach)
Detach ==
    /\ this.data # NULL
    /\ Commit(dsp_proc_enable(Ctx, CODEC_IDX_AUDIO, FALSE),
              "detach", FALSE, U32(0, 0), NoBuffer)
    /\ UNCHANGED <<channels, seed>>

\* the settings code calls dsp_crossfeed_enable(e)
Enable ==
    \E e \in BOOLEAN :
        /\ Commit(dsp_crossfeed_enable(Ctx, e), "enable", e, U32(0, 0), NoBuffer)
        /\ UNCHANGED <<channels, seed>>

\* the settings code calls dsp_set_crossfeed_direct_gain and
\* get_replaygain_int returns g
SetDirectGainTo(g) ==
    /\ Commit(dsp_set_crossfeed_direct_gain(Ctx, g), "set_gain", FALSE, g, NoBuffer)
    /\ UNCHANGED <<channels, seed>>

SetDirectGain == \E g \in GainWords : SetDirectGainTo(g)

\* the settings code calls dsp_set_crossfeed_cross_params
SetCrossParams ==
    \E raw \in ShelfCoefs, scaler \in Scalers :
        /\ Commit(dsp_set_crossfeed_cross_params(Ctx, raw, scaler),
                  "set_params", FALSE, U32(0, 0), NoBuffer)
        /\ UNCHANGED <<channels, seed>>

\* the pipeline hands the next buffer of the stream down; the channel count
\* changes only together with a format change
Deliver ==
    \E nch \in {1, 2}, changed \in {0, 1}, count \in Counts :
        /\ changed = 0 => nch = channels
        /\ LET in == InputBuffer(nch, changed, count)
           IN  Commit(dsp_process([Ctx EXCEPT !.buf = in]),
                      "deliver", FALSE, U32(0, 0), in)
        /\ channels' = nch
        /\ UNCHANGED seed

Next ==
    \/ Attach
    \/ Flush
    \/ Detach
    \/ Enable
    \/ SetDirectGain
    \/ SetCrossParams
    \/ Deliver

Spec == Init /\ [][Next]_vars

\* the gain setter alone, over every kind of conversion result
GainNext == \E g \in GainWordsWide : SetDirectGainTo(g)

GainSpec == Init /\ [][GainNext]_vars

\* The sample loop alone, as a function of the filter state and the buffer:
\* the stage is bound and Active in the middle of a stream, with any gain,
\* coefficients, histories, delay line and cursor.

Array(s) == [k \in 0..(Len(s) - 1) |-> s[k + 1]]

FilterGains == {0, 1073741824, INT32_MAX}

FilterCoefs ==
    {Zeros(3),
     Array(<<720000000, -480000000, 1600000000>>),
     Array(<<INT32_MAX, INT32_MIN, INT32_MIN>>)}

FilterHistories ==
    {Zeros(4),
     Array(<<1, -1, INT32_MAX, INT32_MIN>>),
     Array(<<300000000, -200000000, -400000000, 100000000>>)}

FilterDelays ==
    {[k \in 0..(DELAY_SLOTS - 1) |->
        IF k % 2 = 0 THEN (k + 1) * 10000019 ELSE -((k + 1) * 30000001)],
     [k \in 0..(DELAY_SLOTS - 1) |->
        IF k % 2 = 0 THEN INT32_MAX - k ELSE INT32_MIN + k]}

FilterCursors == {0, DELAY_SLOTS - 2}

\* frames <<left, right>> of input
FilterFrames == {<<0, 0>>, <<INT32_MAX, INT32_MIN>>, <<123456789, -987654321>>}

\* the buffers of at most MaxCount frames
FilterInputs == UNION {[1..n -> FilterFrames] : n \in 0..MaxCount}

\* a stereo buffer holding the frames fs, no format change
FilterBuffer(fs) ==
    [format |-> [num_channels |-> 2, changed |-> 0],
     remcount |-> Len(fs),
     p32 |-> [ch \in 0..1 |-> [i \in 0..(Len(fs) - 1) |-> fs[i + 1][ch + 1]]]]

FilterInit ==
    /\ crossfeed_state \in
          {[gain |-> g, coefs |-> co, history |-> h, delay |-> d, index |-> x,
            dsp |-> CODEC_IDX_AUDIO] :
              g \in FilterGains, co \in FilterCoefs, h \in FilterHistories,
              d \in FilterDelays, x \in FilterCursors}
    /\ this = [data |-> "crossfeed_state",
               process |-> [k \in 0..1 |-> IF k = 0 THEN Process ELSE ProcessNewFormat]]
    /\ active = TRUE
    /\ channels = 2
    /\ buf = NoBuffer
    /\ seed = 1
    /\ inlog = <<>>
    /\ fresh = FALSE
    /\ last = [op |-> "boot", enable |-> FALSE, gain32 |-> U32(0, 0),
               in |-> NoBuffer, calls |-> <<>>, frames |-> <<>>,
               requests |-> <<>>,
               was |-> [clean |-> FALSE, active |-> FALSE, bound |-> FALSE,
                        fresh |-> FALSE]]

\* the pipeline hands the buffer to the normal handler
FilterDeliver ==
    \E fs \in FilterInputs :
        /\ Len(inlog) + Len(fs) <= MaxFilterFrames
        /\ Commit(dsp_process([Ctx EXCEPT !.buf = FilterBuffer(fs)]),
                  "deliver", FALSE, U32(0, 0), FilterBuffer(fs))
        /\ UNCHANGED <<channels, seed>>

FilterNext == FilterDeliver

FilterSpec == FilterInit /\ [][FilterNext]_vars

----------------------------------------------------------------------------
(* Properties *)

Delivered == last.op = "deliver"

\* how many times the format-change handler ran for the buffer
GuardRuns == Cardinality({k \in 1..Len(last.calls) : last.calls[k] = ProcessNewFormat})

\* the format-change handler was the handler the pipeline called
GuardFirst == last.calls # <<>> /\ last.calls[1] = ProcessNewFormat

EvenSlots == {2 * k : k \in 0..12}

\* C1: once the stage has been initialised, the cursor is an even offset in
\* 0..24 (so index and index + 1 are slots of the 26-slot delay line), and
\* every processed frame moves it from k to (k + 2) mod 26, the next frame
\* starting where the last one ended.
C1_CursorValid ==
    this.data # NULL =>
        /\ crossfeed_state.index \in EvenSlots
        /\ \A i \in 1..Len(last.frames) :
              /\ last.frames[i].at \in EvenSlots
              /\ last.frames[i].next = (last.frames[i].at + 2) % 26
              /\ i < Len(last.frames) => last.frames[i + 1].at = last.frames[i].next
        /\ last.frames # <<>> =>
              crossfeed_state.index = last.frames[Len(last.frames)].next

\* a two-frame buffer that starts at the last slot pair and ends mid-way
C1_Witness ==
    /\ Delivered
    /\ Len(last.frames) = 2
    /\ last.frames[1].at = 24
    /\ crossfeed_state.index = 2

\* C2: counting the frames processed since the last flush from 1, the
\* delayed values read while processing frame n are the two inputs of frame
\* n - 13 when n > 13 and 0 before, however the frames were cut into
\* buffers; and the cursor is at 2 * (n mod 13), so back at 0 after 13.
C2_Delay13 ==
    /\ \A i \in 1..Len(last.frames) :
          LET n == Len(inlog) - Len(last.frames) + i
          IN  /\ last.frames[i].dl = IF n > 13 THEN inlog[n - 13][1] ELSE 0
              /\ last.frames[i].dr = IF n > 13 THEN inlog[n - 13][2] ELSE 0
    /\ this.data # NULL => crossfeed_state.index = 2 * (Len(inlog) % 13)

\* frame 14 or later, processed in a buffer of its own
C2_Witness ==
    /\ Len(inlog) >= 14
    /\ Len(last.frames) = 1
    /\ last.frames[1].dl = inlog[Len(inlog) - 13][1]
    /\ last.frames[1].dl # 0

\* C3: DSP_FLUSH zeroes history and delay line, puts the cursor at slot 0
\* and leaves gain, coefficients, bound pipeline and handlers as they were.
C3_FlushFrame ==
    [][last'.op = "flush" =>
          /\ Clean(crossfeed_state')
          /\ crossfeed_state'.gain = crossfeed_state.gain
          /\ crossfeed_state'.coefs = crossfeed_state.coefs
          /\ crossfeed_state'.dsp = crossfeed_state.dsp
          /\ this' = this]_vars

\* a flush of an attached, running stage with parameters set
C3_Witness ==
    /\ last.op = "flush"
    /\ ~last.was.clean
    /\ crossfeed_state.gain # 0
    /\ crossfeed_state.coefs[0] # 0
    /\ crossfeed_state.dsp # NULL
    /\ this.process[0] = Process

\* C4: when the stage goes from inactive to active, history and delay line
\* are zero and the cursor is at slot 0: after the attach that activated it,
\* and before the first frame when the format-change handler activated it.
C4_ActivationClean ==
    [][(~active /\ active') =>
          IF last'.op = "deliver"
          THEN /\ Clean(crossfeed_state)
               /\ last'.frames # <<>> =>
                     /\ last'.frames[1].at = 0
                     /\ last'.frames[1].dl = 0
                     /\ last'.frames[1].dr = 0
          ELSE Clean(crossfeed_state')]_vars

\* the handler reactivates a stage that had parameters set and processes
\* frames at once
C4_Witness ==
    /\ Delivered
    /\ ~last.was.active
    /\ active
    /\ last.frames # <<>>
    /\ crossfeed_state.coefs[0] # 0

\* C5 as stated: whenever the format-change handler runs and a frame of the
\* buffer is processed, history and delay line were all zero.
C5_Original ==
    (Delivered /\ GuardFirst /\ last.frames # <<>>) => last.was.clean

\* C5: when the format-change handler runs and a frame of the buffer is
\* processed, history and delay line were all zero if the stage was
\* inactive; if it was active nothing is reset: the first frame is read at
\* the cursor left by the previous buffer and gets the delayed values stored
\* there, and the frames join those processed since the last flush.
C5_FormatChange ==
    [][(last'.op = "deliver" /\ last'.calls # <<>>
            /\ last'.calls[1] = ProcessNewFormat /\ last'.frames # <<>>) =>
          /\ ~active => Clean(crossfeed_state)
          /\ active =>
                /\ last'.frames[1].at = crossfeed_state.index
                /\ last'.frames[1].dl = crossfeed_state.delay[crossfeed_state.index]
                /\ last'.frames[1].dr = crossfeed_state.delay[crossfeed_state.index + 1]
                /\ Len(inlog') = Len(inlog) + Len(last'.frames)]_vars

\* a format change between two stereo formats on a running stage
C5_Witness ==
    /\ Delivered
    /\ GuardFirst
    /\ last.in.format.changed = 1
    /\ last.was.active
    /\ ~last.was.clean
    /\ last.frames # <<>>
    /\ Len(inlog) > Len(last.frames)

\* C6: given a buffer of fewer than 2 channels, the format-change handler
\* marks the stage inactive, flushes, neither installs nor calls the sample
\* loop, and leaves the buffer as it came.
C6_Deactivate ==
    [][(last'.op = "deliver" /\ last'.calls # <<>>
            /\ last'.calls[1] = ProcessNewFormat
            /\ last'.in.format.num_channels < 2) =>
          /\ ~active'
          /\ Clean(crossfeed_state')
          /\ this' = this
          /\ last'.calls = <<ProcessNewFormat>>
          /\ last'.frames = <<>>
          /\ buf' = last'.in]_vars

\* a mono buffer with samples arrives at a running stage
C6_Witness ==
    /\ Delivered
    /\ last.calls = <<ProcessNewFormat>>
    /\ last.in.format.num_channels = 1
    /\ last.in.remcount > 0
    /\ last.was.active
    /\ ~last.was.clean
    /\ ~active

\* C7: given a buffer of at least 2 channels, the format-change handler
\* marks the stage active, installs crossfeed_process as the normal handler,
\* and that buffer is processed by crossfeed_process once, frame by frame in
\* order, in the same call; the handler itself runs once.
C7_HandOver ==
    (Delivered /\ GuardFirst /\ last.in.format.num_channels >= 2) =>
        /\ active
        /\ this.process[0] = Process
        /\ last.calls = <<ProcessNewFormat, Process>>
        /\ Len(last.frames) = last.in.remcount
        /\ \A i \in 1..Len(last.frames) :
              /\ last.frames[i].left = last.in.p32[0][i - 1]
              /\ last.frames[i].right = last.in.p32[1][i - 1]
              /\ buf.p32[0][i - 1] = last.frames[i].outl
              /\ buf.p32[1][i - 1] = last.frames[i].outr

\* the buffer that carries a format change is processed at once
C7_Witness ==
    /\ Delivered
    /\ last.calls = <<ProcessNewFormat, Process>>
    /\ last.in.format.changed = 1
    /\ last.in.remcount = 2
    /\ Len(last.frames) = 2

\* C8 as stated: for a buffer handed to the attached stage, the
\* format-change handler runs (once, first) exactly when the buffer carries
\* a format change.
C8_Original ==
    (Delivered /\ last.was.bound) =>
        /\ last.in.format.changed = 0 => GuardRuns = 0
        /\ last.in.format.changed = 1 => (GuardFirst /\ GuardRuns = 1)

\* C8: for a buffer handed to the attached stage, the format-change handler
\* runs once and first when the buffer carries a format change; a buffer
\* without one runs it (once, first) only when no buffer reached a handler
\* since the attach, and otherwise never: an active stage then passes it
\* straight to crossfeed_process.
C8_GuardPerGeneration ==
    (Delivered /\ last.was.bound) =>
        /\ last.in.format.changed = 1 => (GuardFirst /\ GuardRuns = 1)
        /\ (last.in.format.changed = 0 /\ last.was.fresh) =>
              (GuardFirst /\ GuardRuns = 1)
        /\ (last.in.format.changed = 0 /\ ~last.was.fresh) =>
              /\ GuardRuns = 0
              /\ last.was.active => last.calls = <<Process>>

\* the first buffer after an attach, without a format change
C8_Witness ==
    /\ Delivered
    /\ last.was.bound
    /\ last.was.fresh
    /\ last.in.format.changed = 0
    /\ GuardFirst

\* C9: for the conversion result g the stored direct gain is 0x7fffffff
\* when g >= 2^24 and g * 128 otherwise: it lies in 0..2^31-1 and no smaller
\* g gives a larger gain.
C9_GainSaturates ==
    last.op = "set_gain" =>
        LET g == last.gain32
        IN  /\ crossfeed_state.gain =
                  IF U32Leq(U32(256, 0), g)
                  THEN 2147483647
                  ELSE (g[1] * 65536 + g[2]) * 128
            /\ crossfeed_state.gain \in 0..2147483647
            /\ \A h \in GainWordsWide :
                  U32Leq(h, g) => DirectGain(h) <= crossfeed_state.gain

\* the conversion returns exactly 2^24 (0 dB)
C9_Witness ==
    /\ last.op = "set_gain"
    /\ last.gain32 = U32(256, 0)
    /\ crossfeed_state.gain = 2147483647

\* C10: dsp_crossfeed_enable(e) asks the pipeline to attach or detach
\* exactly when e differs from whether a pipeline is bound, once; when e
\* matches it changes nothing (so a repeated call asks for nothing), and
\* after the call the stage is bound exactly when e is true.
C10_EnableIdempotent ==
    [][last'.op = "enable" =>
          LET e == last'.enable
              bound == crossfeed_state.dsp # NULL
          IN  /\ (last'.requests # <<>>) <=> (e # bound)
              /\ e # bound =>
                    last'.requests = <<IF e THEN "attach" ELSE "detach">>
              /\ e = bound =>
                    /\ crossfeed_state' = crossfeed_state
                    /\ this' = this
                    /\ active' = active
                    /\ inlog' = inlog
              /\ (crossfeed_state'.dsp # NULL) <=> e
              /\ (last.op = "enable" /\ last.enable = e) =>
                    last'.requests = <<>>]_vars

\* enable(true) on a stage that is bound and has processed frames
C10_Witness ==
    /\ last.op = "enable"
    /\ last.enable
    /\ last.requests = <<>>
    /\ last.was.bound
    /\ inlog # <<>>

\* C11: the setters change only tone parameters, in any state, attached or
\* not: dsp_set_crossfeed_direct_gain changes nothing but gain,
\* dsp_set_crossfeed_cross_params nothing but the three coefficients; the
\* histories, the delay line, the cursor, the bound pipeline and the
\* installed handlers stay as they were.
C11_SettersFrame ==
    [][/\ last'.op = "set_gain" =>
             /\ crossfeed_state' =
                    [crossfeed_state EXCEPT !.gain = crossfeed_state'.gain]
             /\ this' = this
       /\ last'.op = "set_params" =>
             /\ crossfeed_state' =
                    [crossfeed_state EXCEPT !.coefs = crossfeed_state'.coefs]
             /\ this' = this]_vars

\* the gain was set on an attached stage in the middle of a stream
C11_Witness ==
    /\ last.op = "set_gain"
    /\ last.was.bound
    /\ ~last.was.clean
    /\ ~Clean(crossfeed_state)
    /\ this.process[0] = Process
    /\ crossfeed_state.gain # 0

\* the pipeline asked the stage to attach
Attached == last.requests = <<"attach">>

\* the pipeline asked the stage to detach
Detached == last.requests = <<"detach">>

\* C12: after attach (DSP_PROC_INIT), from any state and also when already
\* attached, the stage is bound to the given pipeline, the guard is the
\* normal handler and the format-change handler, the stage is marked
\* active, histories and delay line are zero and the cursor is 0, while
\* gain and coefficients are what they were.
C12_Attach ==
    [][Attached' =>
          /\ crossfeed_state'.dsp = CODEC_IDX_AUDIO
          /\ this'.data # NULL
          /\ this'.process[0] = ProcessNewFormat
          /\ this'.process[1] = ProcessNewFormat
          /\ active'
          /\ Clean(crossfeed_state')
          /\ crossfeed_state'.gain = crossfeed_state.gain
          /\ crossfeed_state'.coefs = crossfeed_state.coefs]_vars

\* attach of a stage that was attached, running and set up
C12_Witness ==
    /\ last.op = "attach"
    /\ last.was.bound
    /\ last.was.active
    /\ ~last.was.clean
    /\ crossfeed_state.gain # 0
    /\ crossfeed_state.coefs # Zeros(3)

\* C13: detach (DSP_PROC_CLOSE) clears only the bound pipeline: gain,
\* coefficients, histories, delay line and cursor are unchanged; and an
\* attach that follows a detach keeps gain and coefficients and leaves
\* histories and delay line zero.
C13_Detach ==
    [][/\ Detached' =>
             /\ crossfeed_state' = [crossfeed_state EXCEPT !.dsp = NULL]
             /\ this' = this
       /\ (Detached /\ Attached') =>
             /\ crossfeed_state'.gain = crossfeed_state.gain
             /\ crossfeed_state'.coefs = crossfeed_state.coefs
             /\ Clean(crossfeed_state')]_vars

\* a running, set-up stage was detached in the middle of a stream
C13_Witness ==
    /\ last.op = "detach"
    /\ last.was.bound
    /\ ~last.was.clean
    /\ ~Clean(crossfeed_state)
    /\ crossfeed_state.dsp = NULL
    /\ crossfeed_state.gain # 0
    /\ crossfeed_state.coefs # Zeros(3)

\* the filter histories right after frame i of the last buffer
HistoryAfter(i) ==
    IF i < Len(last.frames) THEN last.frames[i + 1].hist ELSE crossfeed_state.history

\* C14: for every frame, with dL, dR the delayed samples, fL = c0*dL +
\* c1*prevInL + c2*prevOutL and fR likewise from the right history
\* (truncating fixed-point products, 32-bit wrapping sums); the frame leaves
\* (dL, fL) and (dR, fR) as the left and right history and writes
\* outL = gain*inL + fR and outR = gain*inR + fL.
C14_FrameFormula ==
    \A i \in 1..Len(last.frames) :
        LET f == last.frames[i]
            co == crossfeed_state.coefs
            gain == crossfeed_state.gain
            fL == Add32(Add32(FRACMUL(co[0], f.dl), FRACMUL(co[1], f.hist[0])),
                        FRACMUL(co[2], f.hist[1]))
            fR == Add32(Add32(FRACMUL(co[0], f.dr), FRACMUL(co[1], f.hist[2])),
                        FRACMUL(co[2], f.hist[3]))
        IN  /\ HistoryAfter(i) = Array(<<f.dl, fL, f.dr, fR>>)
            /\ f.outl = Add32(FRACMUL(gain, f.left), fR)
            /\ f.outr = Add32(FRACMUL(gain, f.right), fL)
            /\ buf.p32[0][i - 1] = f.outl
            /\ buf.p32[1][i - 1] = f.outr

\* two frames through a filter whose two channels differ, the sum of the
\* left output having wrapped
C14_Witness ==
    /\ Delivered
    /\ Len(last.frames) = 2
    /\ crossfeed_state.coefs # Zeros(3)
    /\ crossfeed_state.history[1] # crossfeed_state.history[3]
    /\ LET f == last.frames[2]
       IN  /\ f.hist[1] # 0
           /\ FRACMUL(crossfeed_state.gain, f.left) > 0
           /\ crossfeed_state.history[3] > 0
           /\ f.outl < 0

\* C15: with all three coefficients 0, for every input, gain, history and
\* delay line content, each output is the truncating product of the same
\* channel's input and the gain (0 when the gain is 0): the opposite
\* channel contributes nothing, also once delayed samples are non-zero.
C15_DryOnly ==
    crossfeed_state.coefs = Zeros(3) =>
        \A i \in 1..Len(last.frames) :
            LET f == last.frames[i]
            IN  /\ f.outl = FRACMUL(f.left, crossfeed_state.gain)
                /\ f.outr = FRACMUL(f.right, crossfeed_state.gain)
                /\ crossfeed_state.gain = 0 => (f.outl = 0 /\ f.outr = 0)
                /\ buf.p32[0][i - 1] = f.outl
                /\ buf.p32[1][i - 1] = f.outr

\* zero coefficients on non-zero histories and delayed samples, with a gain
C15_Witness ==
    /\ Delivered
    /\ crossfeed_state.coefs = Zeros(3)
    /\ crossfeed_state.gain # 0
    /\ last.frames # <<>>
    /\ LET f == last.frames[1]
       IN  /\ f.hist[1] # 0
           /\ f.hist[3] # 0
           /\ f.dl # 0
           /\ f.dr # 0
           /\ f.left # 0
           /\ f.outl # 0

\* the first n frames since the last reset were silence
ZeroPrefix(n) == \A k \in 1..n : inlog[k] = <<0, 0>>

\* C16: after a reset, for any gain and coefficients, every frame of input
\* (0, 0) processed before any non-zero input produces output (0, 0), and
\* as long as only such frames were processed the histories and the delay
\* line are all zero and only the cursor has advanced.
C16_SilenceAfterReset ==
    this.data # NULL =>
        /\ \A i \in 1..Len(last.frames) :
              ZeroPrefix(Len(inlog) - Len(last.frames) + i) =>
                  /\ last.frames[i].outl = 0
                  /\ last.frames[i].outr = 0
                  /\ buf.p32[0][i - 1] = 0
                  /\ buf.p32[1][i - 1] = 0
        /\ ZeroPrefix(Len(inlog)) =>
              /\ crossfeed_state.history = Zeros(4)
              /\ crossfeed_state.delay = Zeros(DELAY_SLOTS)
              /\ crossfeed_state.index = 2 * (Len(inlog) % DELAY_FRAMES)

\* two frames of silence went through a stage with a gain and a filter
C16_Witness ==
    /\ Delivered
    /\ Len(last.frames) = 2
    /\ inlog = <<<<0, 0>>, <<0, 0>>>>
    /\ crossfeed_state.gain # 0
    /\ crossfeed_state.coefs # Zeros(3)
    /\ crossfeed_state.index = 4

\* C17 as stated: after any deactivation by the guard (a buffer of fewer
\* than 2 channels) the installed normal handler is the guard, not the
\* sample loop, also when the stage was Active before that buffer.
C17_Original ==
    (Delivered /\ last.calls = <<ProcessNewFormat>>
        /\ last.in.format.num_channels < 2) =>
        this.process[0] = ProcessNewFormat

\* C17, amended: a deactivation by the guard marks the stage inactive and
\* leaves both handler slots as they were (the normal handler is still the
\* sample loop if the stage was Active before); the format-change slot
\* holds the guard, and a buffer handed to an inactive stage reaches no
\* handler unless it carries a format change, and then the guard first.
C17_DeactivationKeepsHandler ==
    [][/\ (last'.op = "deliver" /\ GuardFirst'
              /\ last'.in.format.num_channels < 2) =>
             /\ ~active'
             /\ this' = this
             /\ this'.process[1] = ProcessNewFormat
       /\ (last'.op = "deliver" /\ ~active) =>
             /\ last'.in.format.changed = 0 => last'.calls = <<>>
             /\ last'.calls # <<>> => last'.calls[1] = ProcessNewFormat]_vars

\* an Active stage was deactivated by a mono buffer and still has the
\* sample loop as its normal handler
C17_Witness ==
    /\ Delivered
    /\ last.calls = <<ProcessNewFormat>>
    /\ last.in.format.num_channels = 1
    /\ last.was.active
    /\ ~active
    /\ this.process[0] = Process
    /\ this.process[1] = ProcessNewFormat

\* C18: crossfeed_process never runs on a buffer of fewer than 2 channels,
\* for every sequence of attach, detach, flush, enable, setters and buffers
\* whose channel count changes only together with a format change, the
\* pipeline calling the format-change handler on a changed format and the
\* normal handler only while the stage is marked active.
C18_NeverMono ==
    (Delivered /\ \E k \in 1..Len(last.calls) : last.calls[k] = Process) =>
        /\ last.in.format.num_channels >= 2
        /\ channels >= 2
        /\ active

\* the sample loop ran on the stereo buffer that ended a mono stretch
C18_Witness ==
    /\ Delivered
    /\ last.calls = <<ProcessNewFormat, Process>>
    /\ ~last.was.active
    /\ last.was.bound
    /\ ~last.was.fresh
    /\ last.in.format.num_channels = 2
    /\ last.in.remcount > 0

\* crossfeed_process called on a buffer of the frames fs with the filter
\* state st
RunFrames(st, fs) ==
    crossfeed_process([Ctx EXCEPT !.st = st, !.buf = FilterBuffer(fs)])

\* streams to cut in two
SplitInputs ==
    {<<<<123456789, -987654321>>, <<INT32_MAX, INT32_MIN>>, <<-5, 7>>>>,
     <<<<0, 0>>, <<-400000000, 300000000>>, <<INT32_MIN, INT32_MAX>>>>}

\* C19: buffer boundaries are invisible: from any filter state, n frames
\* processed in one call give the same outputs and the same final
\* histories, delay line and cursor as the first k frames in one call and
\* the other n - k in the next, for every 0 <= k <= n.
C19_SplitInvisible ==
    \A fs \in SplitInputs :
        \A k \in 0..Len(fs) :
            LET whole == RunFrames(crossfeed_state, fs)
                first == RunFrames(crossfeed_state, SubSeq(fs, 1, k))
                second == RunFrames(first.st, SubSeq(fs, k + 1, Len(fs)))
            IN  /\ whole.st = second.st
                /\ \A ch \in 0..1 :
                      \A i \in 0..(Len(fs) - 1) :
                          whole.buf.p32[ch][i] =
                              IF i < k THEN first.buf.p32[ch][i]
                              ELSE second.buf.p32[ch][i - k]

\* two frames arrived one per buffer and the cursor wrapped between them,
\* on a filter with non-zero coefficients
C19_Witness ==
    /\ Delivered
    /\ Len(last.frames) = 1
    /\ Len(inlog) = 2
    /\ last.frames[1].at = 0
    /\ crossfeed_state.index = 2
    /\ crossfeed_state.coefs # Zeros(3)
    /\ crossfeed_state.gain # 0

\* C20: crossfeed_process never changes gain, coefficients, the bound
\* pipeline, the installed handlers or the buffer's frame count, and a call
\* with frame count 0 leaves the whole filter state and the buffer as they
\* were.
C20_LoopFrame ==
    [][/\ (last'.op = "deliver"
              /\ \E k \in 1..Len(last'.calls) : last'.calls[k] = Process) =>
             /\ crossfeed_state'.gain = crossfeed_state.gain
             /\ crossfeed_state'.coefs = crossfeed_state.coefs
             /\ crossfeed_state'.dsp = crossfeed_state.dsp
             /\ buf'.remcount = last'.in.remcount
             /\ buf'.format = last'.in.format
             /\ Len(last'.frames) = last'.in.remcount
       /\ (last'.op = "deliver" /\ last'.calls = <<Process>>) =>
             /\ this' = this
             /\ active' = active
             /\ last'.in.remcount = 0 =>
                   /\ crossfeed_state' = crossfeed_state
                   /\ buf' = last'.in
                   /\ inlog' = inlog]_vars

\* an empty buffer went to the sample loop in the middle of a stream
C20_Witness ==
    /\ Delivered
    /\ last.calls = <<Process>>
    /\ last.in.remcount = 0
    /\ ~last.was.clean
    /\ ~Clean(crossfeed_state)
    /\ crossfeed_state.gain # 0
    /\ crossfeed_state.coefs # Zeros(3)

====
